---- MODULE Spec2Model ----
(***************************************************************************)
(* Build-and-release pipeline of the rack:                                 *)
(*   - cmd/convox/builds.go : executeBuild and its three submission        *)
(*     strategies, uploadIndex, finishBuild, waitForBuild (SpecBuild);     *)
(*   - provider releases    : ReleasePromote / releaseFormation            *)
(*     (SpecRelease).                                                      *)
(* Strings whose characters matter (the source argument, the rack version) *)
(* are tuples of one-character strings or of digits.                       *)
(***************************************************************************)
EXTENDS Integers, Sequences, FiniteSets, TLC

(***************************************************************************)
(* Bounds of the model.                                                    *)
(***************************************************************************)
MaxPolls == 3

MaxLogChunks == 2

(***************************************************************************)
(* Values.                                                                 *)
(***************************************************************************)
Apps == {"web", "api"}

NoErr == <<>>

\* the source arguments tried: ".", "dir", "http://x", "https://x",
\* "HTTP://x", "ftp://x", "://x" (url.Parse fails), "1a:b" (no scheme)
Sources ==
  { <<".">>,
    <<"d", "i", "r">>,
    <<"h", "t", "t", "p", ":", "/", "/", "x">>,
    <<"h", "t", "t", "p", "s", ":", "/", "/", "x">>,
    <<"H", "T", "T", "P", ":", "/", "/", "x">>,
    <<"f", "t", "p", ":", "/", "/", "x">>,
    <<":", "/", "/", "x">>,
    <<"1", "a", ":", "b">> }

LowerLetters == {"a", "b", "d", "f", "h", "i", "p", "r", "s", "t", "x"}

UpperLetters == {"H", "T", "P"}

ToLowerChar(c) ==
  CASE c = "H" -> "h"
    [] c = "T" -> "t"
    [] c = "P" -> "p"
    [] OTHER -> c

SchemePunct == {"0", "1", "2", "3", "4", "5", "6", "7", "8", "9", "+", "-", "."}

\* net/url getscheme: the prefix before the first ':' when it is made of
\* letters (digits, + - . allowed after the first character)
RECURSIVE getscheme(_, _)
getscheme(s, i) ==
  IF i > Len(s) THEN [scheme |-> <<>>, err |-> FALSE]
  ELSE IF s[i] \in LowerLetters \cup UpperLetters THEN getscheme(s, i + 1)
  ELSE IF s[i] \in SchemePunct
    THEN IF i = 1 THEN [scheme |-> <<>>, err |-> FALSE] ELSE getscheme(s, i + 1)
  ELSE IF s[i] = ":"
    THEN IF i = 1 THEN [scheme |-> <<>>, err |-> TRUE]
         ELSE [scheme |-> SubSeq(s, 1, i - 1), err |-> FALSE]
  ELSE [scheme |-> <<>>, err |-> FALSE]

\* url.Parse(source): the scheme is lower-cased; on error the *URL is nil
UrlParse(s) ==
  LET r == getscheme(s, 1)
  IN  [scheme |-> [k \in 1..Len(r.scheme) |-> ToLowerChar(r.scheme[k])], nil |-> r.err]

SchemeHttp == <<"h", "t", "t", "p">>

SchemeHttps == <<"h", "t", "t", "p", "s">>

\* the version below which the rack has no incremental builds
MinIncrementalVersion == <<2, 0, 1, 6, 0, 2, 2, 6, 2, 3, 4, 2, 1, 3>>

\* digits stand for themselves; the letters of "dev" are their byte values,
\* which sort after every digit
Versions ==
  { <<>>,
    <<2, 0, 1, 6, 0, 2, 2, 6, 2, 3, 4, 2, 1, 2>>,
    <<2, 0, 1, 6, 0, 2, 2, 6, 2, 3, 4, 2, 1, 3>>,
    <<2, 0, 1, 6, 0, 2, 2, 6, 2, 3, 4, 2, 1, 4>>,
    <<2, 0, 1, 6, 0, 2, 2, 6, 2, 3, 4, 2, 1>>,
    <<2, 0, 1, 5, 1, 2, 3, 1, 2, 3, 5, 9, 5, 9>>,
    <<3>>,
    <<100, 101, 118>> }

\* Go's string "<": bytewise lexicographic, a proper prefix is smaller
RECURSIVE StrLess(_, _)
StrLess(a, b) ==
  IF b = <<>> THEN FALSE
  ELSE IF a = <<>> THEN TRUE
  ELSE IF Head(a) < Head(b) THEN TRUE
  ELSE IF Head(a) > Head(b) THEN FALSE
  ELSE StrLess(Tail(a), Tail(b))

(***************************************************************************)
(* The local source tree and the content index (createIndex, indexWalker). *)
(***************************************************************************)
Paths == <<"a", "b">>

PathSet == {Paths[k] : k \in 1..Len(Paths)}

Contents == {"x", "y"}

NoFile == "ENOENT"

\* a file system: every path holds some bytes or cannot be read
FsStates == [PathSet -> Contents \cup {NoFile}]

\* sha256 + hex of the bytes: injective on the contents of the model
Sha256(data) == IF data = "x" THEN "2d711642" ELSE "a1fce436"

Hashes == {Sha256(d) : d \in Contents}

\* a hash the index never holds (the remote may still answer with it)
ForeignHash == "594e519a"

\* the files filepath.Walk visits and indexWalker keeps, in walk order
Walked(fs, ignore) ==
  SelectSeq(Paths, LAMBDA p : fs[p] # NoFile /\ p \notin ignore)

\* index[hash] = IndexItem{Name: rel, ...}; a later file with the same bytes
\* overwrites the entry of an earlier one
RECURSIVE indexWalker(_, _, _)
indexWalker(files, fs, index) ==
  IF files = <<>> THEN index
  ELSE LET p == Head(files)
           h == Sha256(fs[p])
       IN  indexWalker(Tail(files), fs,
             [k \in DOMAIN index \cup {h} |-> IF k = h THEN [Name |-> p] ELSE index[k]])

EmptyIndex == [k \in {} |-> [Name |-> ""]]

createIndex(fs, ignore) == indexWalker(Walked(fs, ignore), fs, EmptyIndex)

\* index[m].Name, with Go's zero value for a key the map does not hold
IndexName(index, m) == IF m \in DOMAIN index THEN index[m].Name ELSE ""

\* ioutil.ReadFile(name)
ReadFile(fs, name) ==
  IF name \in DOMAIN fs /\ fs[name] # NoFile
  THEN [data |-> fs[name], err |-> FALSE]
  ELSE [data |-> "", err |-> TRUE]

\* entries named by the file's path instead of its hash
RECURSIVE TarEntries_byPath(_, _, _, _)
TarEntries_byPath(missing, index, fs, acc) ==
  IF missing = <<>> THEN [entries |-> acc, err |-> FALSE]
  ELSE LET m == Head(missing)
           r == ReadFile(fs, IndexName(index, m))
       IN  IF r.err THEN [entries |-> acc, err |-> TRUE]
           ELSE TarEntries_byPath(Tail(missing), index, fs,
                  Append(acc, [Name |-> IndexName(index, m), Mode |-> 384, Data |-> r.data]))

\* the loop of uploadIndex: one tar entry per element of missing, named by
\* the hash, holding the bytes read from the indexed path; stops at the
\* first file that cannot be read
RECURSIVE TarEntries(_, _, _, _)
TarEntries(missing, index, fs, acc) ==
  IF missing = <<>> THEN [entries |-> acc, err |-> FALSE]
  ELSE LET m == Head(missing)
           r == ReadFile(fs, IndexName(index, m))
       IN  IF r.err THEN [entries |-> acc, err |-> TRUE]
           ELSE TarEntries(Tail(missing), index, fs,
                  Append(acc, [Name |-> m, Mode |-> 384, Data |-> r.data]))

\* duplicate-free lists over a set: the answers of IndexMissing
RECURSIVE ListsOver(_)
ListsOver(S) ==
  IF S = {} THEN {<<>>}
  ELSE LET x == CHOOSE y \in S : TRUE
           rest == ListsOver(S \ {x})
       IN  rest \cup {<<x>> \o l : l \in rest} \cup {l \o <<x>> : l \in rest}

MissingAnswers(index) == ListsOver(DOMAIN index \cup {ForeignHash})

(***************************************************************************)
(* State.                                                                  *)
(***************************************************************************)
VARIABLES
  pc,          \* position of the CLI's main goroutine
  source,      \* executeBuild's source argument
  incremental, \* c.Bool("incremental")
  app,         \* the application the build is for
  scheme,      \* u.Scheme of the parsed source
  version,     \* system.Version reported by GetSystem
  index,       \* client.Index built by createIndex
  missing,     \* answer of IndexMissing
  fsRead,      \* the file system as uploadIndex read it
  archive,     \* tar entries handed to IndexUpdate
  build,       \* *client.Build returned by the submission
  calls,       \* rack client calls issued so far, in order
  polled,      \* the builds GetBuild returned, in order
  result,      \* (release, err) returned by executeBuild
  logStream,   \* build log connection: "none", "open", "eof", "broken"
  pipe,        \* chunks written to the io.Pipe and not yet read
  sent,        \* chunks the server has sent on the log stream
  stdout,      \* chunks io.Copy has written to os.Stdout
  tree,        \* the files of the directory createTarball archives
  excludes,    \* the files the patterns of .dockerignore match
  tarball,     \* the files in the archive createTarball returned
  remote,      \* the build as the build service holds it
  astatus,     \* a.Status as GetApp answered it to cmdBuildsCreate
  fromApp,     \* the application cmdBuildsCopy copies a build of
  promote,     \* the promote flag of cmdBuildsCopy
  cmdErr,      \* the error the command exits with
  rpc,         \* position of the provider's caller
  rapp,        \* the application whose releases and stack are modelled
  release,     \* the release argument of the running ReleasePromote
  table,       \* the releases table: id -> attributes of the item
  stackParams, \* live parameters of the application's stack
  stackTemplate, \* live template body of the stack
  described,   \* s.Stacks[0].Parameters as DescribeStacks returned them
  formation,   \* the template releaseFormation returned
  formationErr, \* the error releaseFormation returned
  updates,     \* UpdateStack requests issued by the running ReleasePromote
  rcalls,      \* remote calls of the running ReleasePromote, in order
  rerr,        \* the error ReleasePromote returned
  promotions,  \* ReleasePromote calls started so far
  rop,         \* the provider function that is running or has just returned
  clock,       \* time.Now(), counted in stamps taken
  writes,      \* ReleaseCreate and ReleaseCopy calls started so far
  drel,        \* the item ReleaseCopy read
  copied,      \* the id ReleaseCopy returned
  listed,      \* the releases ReleaseList returned
  options      \* the options argument of the running ReleaseCreate

tarVars == <<tree, excludes, tarball>>

cmdVars == <<astatus, fromApp, promote, cmdErr>>

buildVars ==
  <<pc, source, incremental, app, scheme, version, index, missing, fsRead,
    archive, build, calls, polled, result, logStream, pipe, sent, stdout,
    tarVars, remote, cmdVars>>

promoteVars ==
  <<rpc, rapp, release, table, stackParams, stackTemplate, described, formation,
    formationErr, updates, rcalls, rerr, promotions, rop>>

storeVars == <<clock, writes, drel, copied, listed, options>>

releaseVars == <<promoteVars, storeVars>>

vars == <<buildVars, releaseVars>>

(***************************************************************************)
(* Errors and remote answers.                                              *)
(***************************************************************************)
RemoteErr(op) == <<"remote error", op>>

LocalErr(what) == <<"local error", what>>

ErrNoBuildId == <<"unable to fetch build id">>

ErrBuildFailed(a) == <<a, " build failed">>

ErrBuildTimedOut(a) == <<a, " build timed out">>

Call(op, a, arg) == [op |-> op, app |-> a, arg |-> arg]

BuildIds == {"", "B1"}

Releases == {"", "R1"}

Statuses == {"created", "building", "complete", "error", "failed", "timeout", "queued"}

NoBuild == [Id |-> "", Status |-> "", Release |-> ""]

Return(rel, e) ==
  /\ pc' = "return"
  /\ result' = [release |-> rel, err |-> e]

\* the locals of the build commands before anything ran
BuildLocals0 ==
  /\ scheme = <<>>
  /\ version = <<>>
  /\ index = EmptyIndex
  /\ missing = <<>>
  /\ fsRead = [p \in PathSet |-> NoFile]
  /\ archive = <<>>
  /\ build = NoBuild
  /\ calls = <<>>
  /\ polled = <<>>
  /\ result = [release |-> "", err |-> NoErr]
  /\ logStream = "none"
  /\ pipe = 0
  /\ sent = 0
  /\ stdout = 0
  /\ tree = {}
  /\ excludes = {}
  /\ tarball = {}
  /\ remote = NoBuild
  /\ astatus = ""
  /\ fromApp = ""
  /\ promote = FALSE
  /\ cmdErr = NoErr

\* the provider is not part of the CLI process
ReleaseOff ==
  /\ rpc = "off"
  /\ rapp = "web"
  /\ release = ""
  /\ table = [id \in {} |-> [a \in {} |-> ""]]
  /\ stackParams = <<>>
  /\ stackTemplate = <<>>
  /\ described = <<>>
  /\ formation = <<>>
  /\ formationErr = NoErr
  /\ updates = <<>>
  /\ rcalls = <<>>
  /\ rerr = NoErr
  /\ promotions = 0
  /\ rop = ""
  /\ clock = 0
  /\ writes = 0
  /\ drel = [a \in {} |-> ""]
  /\ copied = ""
  /\ listed = <<>>
  /\ options = [a \in {} |-> ""]

InitBuild ==
  /\ pc = "executeBuild"
  /\ source \in Sources
  /\ incremental \in BOOLEAN
  /\ app \in Apps
  /\ BuildLocals0
  /\ ReleaseOff

(***************************************************************************)
(* executeBuild and the three submission strategies.                       *)
(***************************************************************************)
\* the incremental flag tested before the scheme
Strategy_flagFirst(u, inc) ==
  IF inc THEN "executeBuildDirIncremental"
  ELSE IF u.scheme \in {SchemeHttp, SchemeHttps} THEN "executeBuildUrl"
  ELSE "executeBuildDir"

\* the strategy switch of executeBuild
Strategy(u, inc) ==
  IF u.scheme \in {SchemeHttp, SchemeHttps} THEN "executeBuildUrl"
  ELSE IF inc THEN "executeBuildDirIncremental"
  ELSE "executeBuildDir"

\* u, _ := url.Parse(source); switch u.Scheme: a nil u is dereferenced
executeBuild ==
  /\ pc = "executeBuild"
  /\ LET u == UrlParse(source)
     IN  IF u.nil
         THEN /\ pc' = "panic"
              /\ UNCHANGED scheme
         ELSE /\ scheme' = u.scheme
              /\ pc' = Strategy(u, incremental)
  /\ UNCHANGED <<source, incremental, app, version, index, missing, fsRead, archive,
                 build, calls, polled, result, logStream, pipe, sent, stdout>>
  /\ UNCHANGED tarVars
  /\ UNCHANGED remote
  /\ UNCHANGED cmdVars
  /\ UNCHANGED releaseVars

\* a submission call: the remote answers an error or a build record; the
\* caller then returns or tail-calls finishBuild, so its locals (the index,
\* the missing list, the archive buffer) are gone
Submit(op, arg) ==
  /\ calls' = Append(calls, Call(op, app, arg))
  /\ index' = EmptyIndex
  /\ missing' = <<>>
  /\ fsRead' = [p \in PathSet |-> NoFile]
  /\ archive' = <<>>
  /\ tree' = {}
  /\ excludes' = {}
  /\ tarball' = {}
  /\ \E ok \in BOOLEAN, id \in BuildIds :
       IF ok
       THEN /\ build' = [Id |-> id, Status |-> "created", Release |-> ""]
            /\ pc' = "finishBuild"
            /\ UNCHANGED result
       ELSE /\ Return("", RemoteErr(op))
            /\ UNCHANGED build

executeBuildUrl ==
  /\ pc = "executeBuildUrl"
  /\ Submit("CreateBuildUrl", source)
  /\ UNCHANGED <<source, incremental, app, scheme, version, polled, logStream, pipe,
                 sent, stdout>>
  /\ UNCHANGED remote
  /\ UNCHANGED cmdVars
  /\ UNCHANGED releaseVars

\* no fallback: every rack is taken to support incremental builds
SupportsIncremental_always(v) == TRUE

\* the version test of executeBuildDirIncremental
SupportsIncremental(v) == ~StrLess(v, MinIncrementalVersion)

\* GetSystem and the fallback to executeBuildDir on an old rack
executeBuildDirIncremental ==
  /\ pc = "executeBuildDirIncremental"
  /\ calls' = Append(calls, Call("GetSystem", "", ""))
  /\ \E ok \in BOOLEAN, v \in Versions :
       IF ok
       THEN /\ version' = v
            /\ pc' = IF SupportsIncremental(v) THEN "createIndex" ELSE "executeBuildDir"
            /\ UNCHANGED result
       ELSE /\ Return("", RemoteErr("GetSystem"))
            /\ UNCHANGED version
  /\ UNCHANGED <<source, incremental, app, scheme, index, missing, fsRead, archive,
                 build, polled, logStream, pipe, sent, stdout>>
  /\ UNCHANGED tarVars
  /\ UNCHANGED remote
  /\ UNCHANGED cmdVars
  /\ UNCHANGED releaseVars

\* filepath.Abs and createIndex: a local failure returns, otherwise the
\* index of the tree as it is now
executeBuildDirIncremental_createIndex ==
  /\ pc = "createIndex"
  /\ \E ok \in BOOLEAN, fs \in FsStates, ignore \in SUBSET PathSet :
       IF ok
       THEN /\ index' = createIndex(fs, ignore)
            /\ pc' = "uploadIndex"
            /\ UNCHANGED result
       ELSE /\ Return("", LocalErr("createIndex"))
            /\ UNCHANGED index
  /\ UNCHANGED <<source, incremental, app, scheme, version, missing, fsRead, archive,
                 build, calls, polled, logStream, pipe, sent, stdout>>
  /\ UNCHANGED tarVars
  /\ UNCHANGED remote
  /\ UNCHANGED cmdVars
  /\ UNCHANGED releaseVars

\* the short cut never taken
NothingMissing_never(m) == FALSE

\* if len(missing) == 0
NothingMissing(m) == Len(m) = 0

\* uploadIndex up to the IndexUpdate call: IndexMissing, the empty short
\* cut, and the archive of the missing files
uploadIndex ==
  /\ pc = "uploadIndex"
  /\ calls' = Append(calls, Call("IndexMissing", "", "index"))
  /\ \E ok \in BOOLEAN, m \in MissingAnswers(index), fs \in FsStates :
       IF ~ok
       THEN /\ Return("", RemoteErr("IndexMissing"))
            /\ UNCHANGED <<missing, fsRead, archive>>
       ELSE /\ missing' = m
            /\ IF NothingMissing(m)
               THEN /\ pc' = "CreateBuildIndex"
                    /\ UNCHANGED <<fsRead, archive, result>>
               ELSE LET tar == TarEntries(m, index, fs, <<>>)
                    IN  /\ fsRead' = fs
                        /\ IF tar.err
                           THEN /\ Return("", LocalErr("ReadFile"))
                                /\ UNCHANGED archive
                           ELSE /\ archive' = tar.entries
                                /\ pc' = "IndexUpdate"
                                /\ UNCHANGED result
  /\ UNCHANGED <<source, incremental, app, scheme, version, index, build, polled,
                 logStream, pipe, sent, stdout>>
  /\ UNCHANGED tarVars
  /\ UNCHANGED remote
  /\ UNCHANGED cmdVars
  /\ UNCHANGED releaseVars

\* an upload whose failure falls back to the tarball strategy
uploadIndex_IndexUpdate_fallsBack ==
  /\ pc = "IndexUpdate"
  /\ calls' = Append(calls, Call("IndexUpdate", "", "archive"))
  /\ \E ok \in BOOLEAN :
       IF ok
       THEN pc' = "CreateBuildIndex" /\ UNCHANGED result
       ELSE pc' = "executeBuildDir" /\ UNCHANGED result
  /\ UNCHANGED <<source, incremental, app, scheme, version, index, missing, fsRead,
                 archive, build, polled, logStream, pipe, sent, stdout>>
  /\ UNCHANGED tarVars
  /\ UNCHANGED remote
  /\ UNCHANGED cmdVars
  /\ UNCHANGED releaseVars

\* rackClient(c).IndexUpdate(buf.Bytes(), progress)
uploadIndex_IndexUpdate ==
  /\ pc = "IndexUpdate"
  /\ calls' = Append(calls, Call("IndexUpdate", "", "archive"))
  /\ \E ok \in BOOLEAN :
       IF ok
       THEN pc' = "CreateBuildIndex" /\ UNCHANGED result
       ELSE Return("", RemoteErr("IndexUpdate"))
  /\ UNCHANGED <<source, incremental, app, scheme, version, index, missing, fsRead,
                 archive, build, polled, logStream, pipe, sent, stdout>>
  /\ UNCHANGED tarVars
  /\ UNCHANGED remote
  /\ UNCHANGED cmdVars
  /\ UNCHANGED releaseVars

executeBuildDirIncremental_CreateBuildIndex ==
  /\ pc = "CreateBuildIndex"
  /\ Submit("CreateBuildIndex", "index")
  /\ UNCHANGED <<source, incremental, app, scheme, version, polled, logStream, pipe,
                 sent, stdout>>
  /\ UNCHANGED remote
  /\ UNCHANGED cmdVars
  /\ UNCHANGED releaseVars

\* the files a build directory may hold
TarPaths == {".dockerignore", "Dockerfile", "app.rb"}

\* fileutils.Matches(file, excludes), the patterns taken by what they match
Matches(file, excl) == file \in excl

\* excludes as read from .dockerignore: none when the file does not exist
ExcludesOf(tr) == IF ".dockerignore" \in tr THEN SUBSET TarPaths ELSE {{}}

\* includes left at "." whatever the patterns match
createTarballIncludes_dotOnly(excl) == <<".">>

\* includes := {"."}; when the patterns match .dockerignore or Dockerfile,
\* both names are appended
createTarballIncludes(excl) ==
  IF Matches(".dockerignore", excl) \/ Matches("Dockerfile", excl)
  THEN <<".", ".dockerignore", "Dockerfile">>
  ELSE <<".">>

\* archive.TarWithOptions(sym, {ExcludePatterns, IncludeFiles}): every
\* include is walked; a file is skipped when the patterns match it, unless
\* it is itself an include
TarWithOptions(tr, excl, incl) ==
  {f \in tr : \E k \in 1..Len(incl) :
     /\ incl[k] \in {".", f}
     /\ incl[k] = f \/ ~Matches(f, excl)}

createTarball(tr, excl) == TarWithOptions(tr, excl, createTarballIncludes(excl))

\* warnUnignoredEnv, filepath.Abs and createTarball of executeBuildDir
executeBuildDir ==
  /\ pc = "executeBuildDir"
  /\ \E ok \in BOOLEAN, tr \in SUBSET TarPaths :
       \E excl \in ExcludesOf(tr) :
         IF ok
         THEN /\ tree' = tr
              /\ excludes' = excl
              /\ tarball' = createTarball(tr, excl)
              /\ pc' = "CreateBuildSourceProgress"
              /\ UNCHANGED result
         ELSE /\ Return("", LocalErr("createTarball"))
              /\ UNCHANGED tarVars
  /\ UNCHANGED <<source, incremental, app, scheme, version, index, missing, fsRead,
                 archive, build, calls, polled, logStream, pipe, sent, stdout>>
  /\ UNCHANGED remote
  /\ UNCHANGED cmdVars
  /\ UNCHANGED releaseVars

executeBuildDir_CreateBuildSourceProgress ==
  /\ pc = "CreateBuildSourceProgress"
  /\ Submit("CreateBuildSourceProgress", "tarball")
  /\ UNCHANGED <<source, incremental, app, scheme, version, polled, logStream, pipe,
                 sent, stdout>>
  /\ UNCHANGED remote
  /\ UNCHANGED cmdVars
  /\ UNCHANGED releaseVars

(***************************************************************************)
(* finishBuild: the log stream, then the status polling.                   *)
(***************************************************************************)
\* a finishBuild that takes every build record as identified
HasBuildId_always(b) == TRUE

\* build.Id == "" is the failure
HasBuildId(b) == b.Id # ""

\* the build id test, the pipe with its io.Copy goroutine, and the call of
\* StreamBuildLogs
finishBuild ==
  /\ pc = "finishBuild"
  /\ IF ~HasBuildId(build)
     THEN /\ Return("", ErrNoBuildId)
          /\ UNCHANGED <<calls, logStream>>
     ELSE /\ calls' = Append(calls, Call("StreamBuildLogs", app, build.Id))
          /\ logStream' = "open"
          /\ pc' = "StreamBuildLogs"
          /\ UNCHANGED result
  /\ UNCHANGED <<source, incremental, app, scheme, version, index, missing, fsRead,
                 archive, build, polled, pipe, sent, stdout>>
  /\ UNCHANGED tarVars
  /\ UNCHANGED remote
  /\ UNCHANGED cmdVars
  /\ UNCHANGED releaseVars

\* StreamBuildLogs copies one chunk of the server's log to the pipe writer;
\* the write returns once the reader has taken the chunk
StreamBuildLogs_write ==
  /\ pc = "StreamBuildLogs"
  /\ logStream = "open"
  /\ pipe = 0
  /\ sent < MaxLogChunks
  /\ sent' = sent + 1
  /\ pipe' = 1
  /\ UNCHANGED <<pc, source, incremental, app, scheme, version, index, missing, fsRead,
                 archive, build, calls, polled, result, logStream, stdout>>
  /\ UNCHANGED tarVars
  /\ UNCHANGED remote
  /\ UNCHANGED cmdVars
  /\ UNCHANGED releaseVars

\* go io.Copy(os.Stdout, reader)
ioCopy ==
  /\ pipe = 1
  /\ pipe' = 0
  /\ stdout' = stdout + 1
  /\ UNCHANGED <<pc, source, incremental, app, scheme, version, index, missing, fsRead,
                 archive, build, calls, polled, result, logStream, sent>>
  /\ UNCHANGED tarVars
  /\ UNCHANGED remote
  /\ UNCHANGED cmdVars
  /\ UNCHANGED releaseVars

\* StreamBuildLogs returns: the server closed the stream (nil) or the
\* connection broke (error)
StreamBuildLogs_return ==
  /\ pc = "StreamBuildLogs"
  /\ logStream = "open"
  /\ pipe = 0
  /\ \E ok \in BOOLEAN : logStream' = IF ok THEN "eof" ELSE "broken"
  /\ pc' = "finishBuild.streamed"
  /\ UNCHANGED <<source, incremental, app, scheme, version, index, missing, fsRead,
                 archive, build, calls, polled, result, pipe, sent, stdout>>
  /\ UNCHANGED tarVars
  /\ UNCHANGED remote
  /\ UNCHANGED cmdVars
  /\ UNCHANGED releaseVars

\* err := StreamBuildLogs(...); if err != nil { return "", err }
finishBuild_streamed ==
  /\ pc = "finishBuild.streamed"
  /\ IF logStream = "broken"
     THEN Return("", RemoteErr("StreamBuildLogs"))
     ELSE pc' = "waitForBuild" /\ UNCHANGED result
  /\ UNCHANGED <<source, incremental, app, scheme, version, index, missing, fsRead,
                 archive, build, calls, polled, logStream, pipe, sent, stdout>>
  /\ UNCHANGED tarVars
  /\ UNCHANGED remote
  /\ UNCHANGED cmdVars
  /\ UNCHANGED releaseVars

\* the switch without its "failed" case
waitForBuildSwitch_noFailed(b, a) ==
  CASE b.Status = "complete" -> [return |-> TRUE, release |-> b.Release, err |-> NoErr]
    [] b.Status = "error" -> [return |-> TRUE, release |-> "", err |-> ErrBuildFailed(a)]
    [] b.Status = "timeout" -> [return |-> TRUE, release |-> "", err |-> ErrBuildTimedOut(a)]
    [] OTHER -> [return |-> FALSE, release |-> "", err |-> NoErr]

\* the switch of waitForBuild on build.Status
waitForBuildSwitch(b, a) ==
  CASE b.Status = "complete" -> [return |-> TRUE, release |-> b.Release, err |-> NoErr]
    [] b.Status = "error" -> [return |-> TRUE, release |-> "", err |-> ErrBuildFailed(a)]
    [] b.Status = "failed" -> [return |-> TRUE, release |-> "", err |-> ErrBuildFailed(a)]
    [] b.Status = "timeout" -> [return |-> TRUE, release |-> "", err |-> ErrBuildTimedOut(a)]
    [] OTHER -> [return |-> FALSE, release |-> "", err |-> NoErr]

\* the histories keep the last MaxPolls turns of the loop
Keep(seq) == IF Len(polled) < MaxPolls THEN seq ELSE Tail(seq)

\* a loop that sleeps and asks again when GetBuild fails
waitForBuildTurn_retries(ok, st, rel) ==
  /\ calls' = Append(Keep(calls), Call("GetBuild", app, build.Id))
  /\ IF ~ok
     THEN /\ pc' = "sleep"
          /\ UNCHANGED <<result, polled>>
     ELSE LET b == [Id |-> build.Id, Status |-> st, Release |-> rel]
              sw == waitForBuildSwitch(b, app)
          IN  /\ polled' = Append(Keep(polled), b)
              /\ IF sw.return
                 THEN Return(sw.release, sw.err)
                 ELSE pc' = "sleep" /\ UNCHANGED result

\* one turn of the loop of waitForBuild: GetBuild, if err != nil return
\* "", err, then the switch
waitForBuildTurn(ok, st, rel) ==
  /\ calls' = Append(Keep(calls), Call("GetBuild", app, build.Id))
  /\ IF ~ok
     THEN /\ Return("", RemoteErr("GetBuild"))
          /\ UNCHANGED polled
     ELSE LET b == [Id |-> build.Id, Status |-> st, Release |-> rel]
              sw == waitForBuildSwitch(b, app)
          IN  /\ polled' = Append(Keep(polled), b)
              /\ IF sw.return
                 THEN Return(sw.release, sw.err)
                 ELSE pc' = "sleep" /\ UNCHANGED result

\* a turn of the loop, the remote answering anything
waitForBuild ==
  /\ pc = "waitForBuild"
  /\ Len(polled) < MaxPolls
  /\ \E ok \in BOOLEAN, st \in Statuses, rel \in Releases : waitForBuildTurn(ok, st, rel)
  /\ UNCHANGED <<source, incremental, app, scheme, version, index, missing, fsRead,
                 archive, build, logStream, pipe, sent, stdout>>
  /\ UNCHANGED tarVars
  /\ UNCHANGED remote
  /\ UNCHANGED cmdVars
  /\ UNCHANGED releaseVars

\* a loop that gives up after MaxPolls turns
waitForBuild_sleep_givesUp ==
  /\ pc = "sleep"
  /\ IF Len(polled) < MaxPolls
     THEN pc' = "waitForBuild" /\ UNCHANGED result
     ELSE Return("", ErrBuildTimedOut(app))
  /\ UNCHANGED <<source, incremental, app, scheme, version, index, missing, fsRead,
                 archive, build, calls, polled, logStream, pipe, sent, stdout>>
  /\ UNCHANGED tarVars
  /\ UNCHANGED remote
  /\ UNCHANGED cmdVars
  /\ UNCHANGED releaseVars

\* time.Sleep(1 * time.Second)
waitForBuild_sleep ==
  /\ pc = "sleep"
  /\ pc' = "waitForBuild"
  /\ UNCHANGED <<source, incremental, app, scheme, version, index, missing, fsRead,
                 archive, build, calls, polled, result, logStream, pipe, sent, stdout>>
  /\ UNCHANGED tarVars
  /\ UNCHANGED remote
  /\ UNCHANGED cmdVars
  /\ UNCHANGED releaseVars

NextBuild ==
  \/ executeBuild
  \/ executeBuildUrl
  \/ executeBuildDirIncremental
  \/ executeBuildDirIncremental_createIndex
  \/ uploadIndex
  \/ uploadIndex_IndexUpdate
  \/ executeBuildDirIncremental_CreateBuildIndex
  \/ executeBuildDir
  \/ executeBuildDir_CreateBuildSourceProgress
  \/ finishBuild
  \/ StreamBuildLogs_write
  \/ ioCopy
  \/ StreamBuildLogs_return
  \/ finishBuild_streamed
  \/ waitForBuild
  \/ waitForBuild_sleep

SpecBuild == InitBuild /\ [][NextBuild]_vars

(***************************************************************************)
(* waitForBuild against a build service whose build runs to its end.       *)
(***************************************************************************)
\* finishBuild has called waitForBuild for the build the service created
InitPoll ==
  /\ pc = "waitForBuild"
  /\ source = <<100, 101, 118>>
  /\ incremental \in BOOLEAN
  /\ app \in Apps
  /\ scheme = <<>>
  /\ version = <<>>
  /\ index = EmptyIndex
  /\ missing = <<>>
  /\ fsRead = [p \in PathSet |-> NoFile]
  /\ archive = <<>>
  /\ build = [Id |-> "B1", Status |-> "created", Release |-> ""]
  /\ calls = <<>>
  /\ polled = <<>>
  /\ result = [release |-> "", err |-> NoErr]
  /\ logStream = "eof"
  /\ pipe = 0
  /\ sent = 0
  /\ stdout = 0
  /\ tree = {}
  /\ excludes = {}
  /\ tarball = {}
  /\ remote = [Id |-> "B1", Status |-> "created", Release |-> ""]
  /\ astatus = ""
  /\ fromApp = ""
  /\ promote = FALSE
  /\ cmdErr = NoErr
  /\ ReleaseOff

\* the service moves the build on: created, building, then one of the
\* final statuses, a complete build with its release
RemoteBuild_advance ==
  /\ \/ /\ remote.Status = "created"
        /\ remote' = [remote EXCEPT !.Status = "building"]
     \/ /\ remote.Status = "building"
        /\ \E st \in {"complete", "error", "failed", "timeout"} :
             remote' = [remote EXCEPT !.Status = st,
                                      !.Release = IF st = "complete" THEN "R1" ELSE ""]
  /\ UNCHANGED <<pc, source, incremental, app, scheme, version, index, missing, fsRead,
                 archive, build, calls, polled, result, logStream, pipe, sent, stdout>>
  /\ UNCHANGED tarVars
  /\ UNCHANGED cmdVars
  /\ UNCHANGED releaseVars

\* a turn of the loop, GetBuild answering the build as the service holds it
waitForBuild_remote ==
  /\ pc = "waitForBuild"
  /\ waitForBuildTurn(TRUE, remote.Status, remote.Release)
  /\ UNCHANGED <<source, incremental, app, scheme, version, index, missing, fsRead,
                 archive, build, logStream, pipe, sent, stdout>>
  /\ UNCHANGED tarVars
  /\ UNCHANGED remote
  /\ UNCHANGED cmdVars
  /\ UNCHANGED releaseVars

NextPoll ==
  \/ RemoteBuild_advance
  \/ waitForBuild_remote
  \/ waitForBuild_sleep

\* the loop is sequential code whose calls return, and the build is one
\* that runs to its end
SpecPoll ==
  /\ InitPoll
  /\ [][NextPoll]_vars
  /\ WF_vars(waitForBuild_remote)
  /\ WF_vars(waitForBuild_sleep)
  /\ WF_vars(RemoteBuild_advance)

(***************************************************************************)
(* cmdBuildsCreate: the application's status, then executeBuild.           *)
(***************************************************************************)
\* the statuses GetApp answers; "deleting" is one the switch does not name
AppStatuses == {"creating", "running", "updating", "deleting"}

ErrStillCreating(a) == <<"app is still creating: ", a>>

ErrUnableToBuild(a) == <<"unable to build app: ", a>>

\* the command ends with stdcli.ExitError(err), or with nil
Exit(e) ==
  /\ pc' = "exit"
  /\ cmdErr' = e

\* a switch that lets an application through while it is being created
AppStatusGate_creatingPasses(st, a) ==
  CASE st \in {"creating", "running", "updating"} -> NoErr
    [] OTHER -> ErrUnableToBuild(a)

\* switch a.Status: the error the command fails with, or none
AppStatusGate(st, a) ==
  CASE st = "creating" -> ErrStillCreating(a)
    [] st \in {"running", "updating"} -> NoErr
    [] OTHER -> ErrUnableToBuild(a)

InitCreate ==
  /\ pc = "cmdBuildsCreate"
  /\ source \in Sources
  /\ incremental \in BOOLEAN
  /\ app \in Apps
  /\ BuildLocals0
  /\ ReleaseOff

\* stdcli.DirApp, GetApp and the switch on a.Status; executeBuild is called
\* when the switch lets the application through
cmdBuildsCreate ==
  /\ pc = "cmdBuildsCreate"
  /\ \E dirOk \in BOOLEAN, ok \in BOOLEAN, st \in AppStatuses :
       IF ~dirOk
       THEN /\ Exit(LocalErr("DirApp"))
            /\ UNCHANGED <<calls, astatus>>
       ELSE /\ calls' = Append(calls, Call("GetApp", app, ""))
            /\ IF ~ok
               THEN /\ Exit(RemoteErr("GetApp"))
                    /\ UNCHANGED astatus
               ELSE /\ astatus' = st
                    /\ IF AppStatusGate(st, app) # NoErr
                       THEN Exit(AppStatusGate(st, app))
                       ELSE pc' = "executeBuild" /\ UNCHANGED cmdErr
  /\ UNCHANGED <<source, incremental, app, scheme, version, index, missing, fsRead,
                 archive, build, polled, result, logStream, pipe, sent, stdout>>
  /\ UNCHANGED <<fromApp, promote>>
  /\ UNCHANGED tarVars
  /\ UNCHANGED remote
  /\ UNCHANGED releaseVars

\* release, err := executeBuild(...): the error is the command's, a release
\* is printed
cmdBuildsCreate_executed ==
  /\ pc = "return"
  /\ Exit(result.err)
  /\ UNCHANGED <<source, incremental, app, scheme, version, index, missing, fsRead,
                 archive, build, calls, polled, result, logStream, pipe, sent, stdout>>
  /\ UNCHANGED <<astatus, fromApp, promote>>
  /\ UNCHANGED tarVars
  /\ UNCHANGED remote
  /\ UNCHANGED releaseVars

NextCreate ==
  \/ cmdBuildsCreate
  \/ NextBuild
  \/ cmdBuildsCreate_executed

SpecCreate == InitCreate /\ [][NextCreate]_vars

(***************************************************************************)
(* cmdBuildsCopy: CopyBuild, finishBuild, then the promotion.              *)
(***************************************************************************)
\* c.Args()[0], the build that is copied
CopiedBuild == "B0"

\* destApp is the model's app, the application finishBuild is called with;
\* fromApp is the application of the working directory
InitCopy ==
  /\ pc = "cmdBuildsCopy"
  /\ source = <<"dir", "ok">>
  /\ incremental = FALSE
  /\ app \in Apps
  /\ scheme = ""
  /\ version = ""
  /\ index = EmptyIndex
  /\ missing = <<>>
  /\ fsRead = "ok"
  /\ archive = <<>>
  /\ build = NoBuild
  /\ calls = <<>>
  /\ polled = <<>>
  /\ result = [release |-> "", err |-> NoErr]
  /\ logStream = "none"
  /\ pipe = 0
  /\ sent = 0
  /\ stdout = 0
  /\ tree = {}
  /\ excludes = {}
  /\ tarball = {}
  /\ remote = NoBuild
  /\ astatus = ""
  /\ fromApp \in Apps
  /\ promote \in BOOLEAN
  /\ cmdErr = NoErr
  /\ ReleaseOff

\* stdcli.DirApp, the count of the arguments, CopyBuild; finishBuild is
\* called with the build CopyBuild answered
cmdBuildsCopy ==
  /\ pc = "cmdBuildsCopy"
  /\ \E dirOk \in BOOLEAN, nargs \in 1..2, ok \in BOOLEAN, id \in BuildIds,
        st \in Statuses, rel \in Releases :
       IF ~dirOk
       THEN /\ Exit(LocalErr("DirApp"))
            /\ UNCHANGED <<calls, build>>
       ELSE IF nargs # 2
       THEN /\ Exit(NoErr)
            /\ UNCHANGED <<calls, build>>
       ELSE /\ calls' = Append(calls, [op |-> "CopyBuild", app |-> fromApp,
                                       arg |-> CopiedBuild, dest |-> app])
            /\ IF ~ok
               THEN /\ Exit(RemoteErr("CopyBuild"))
                    /\ UNCHANGED build
               ELSE /\ build' = [Id |-> id, Status |-> st, Release |-> rel]
                    /\ pc' = "finishBuild"
                    /\ UNCHANGED cmdErr
  /\ UNCHANGED <<source, incremental, app, scheme, version, index, missing, fsRead,
                 archive, polled, result, logStream, pipe, sent, stdout>>
  /\ UNCHANGED <<astatus, fromApp, promote>>
  /\ UNCHANGED tarVars
  /\ UNCHANGED remote
  /\ UNCHANGED releaseVars

\* a command that promotes whatever the flag says
PromoteWanted_always(rel, flag) == rel # ""

\* if releaseID != "" { if c.Bool("promote") {
PromoteWanted(rel, flag) == rel # "" /\ flag

\* releaseID, err := finishBuild(c, destApp, b): its error is the command's;
\* PromoteRelease for a release id when the flag is set
cmdBuildsCopy_finished ==
  /\ pc = "return"
  /\ IF result.err # NoErr
     THEN /\ Exit(result.err)
          /\ UNCHANGED calls
     ELSE IF PromoteWanted(result.release, promote)
     THEN /\ calls' = Append(calls, Call("PromoteRelease", app, result.release))
          /\ \E ok \in BOOLEAN :
               Exit(IF ok THEN NoErr ELSE RemoteErr("PromoteRelease"))
     ELSE /\ Exit(NoErr)
          /\ UNCHANGED calls
  /\ UNCHANGED <<source, incremental, app, scheme, version, index, missing, fsRead,
                 archive, build, polled, result, logStream, pipe, sent, stdout>>
  /\ UNCHANGED <<astatus, fromApp, promote>>
  /\ UNCHANGED tarVars
  /\ UNCHANGED remote
  /\ UNCHANGED releaseVars

NextCopy ==
  \/ cmdBuildsCopy
  \/ finishBuild
  \/ StreamBuildLogs_write
  \/ ioCopy
  \/ StreamBuildLogs_return
  \/ finishBuild_streamed
  \/ waitForBuild
  \/ waitForBuild_sleep
  \/ cmdBuildsCopy_finished

SpecCopy == InitCopy /\ [][NextCopy]_vars

(***************************************************************************)
(* The provider: the releases table, the stack, ReleasePromote.            *)
(***************************************************************************)
MaxPromotions == 2

MaxWrites == 2

\* promotions and writes together
MaxCalls == 3

Cluster == "convox"

\* fmt.Sprintf("%s-%s", cluster, app)
StackName(a) == <<Cluster, "-", a>>

Param(k, v) == [ParameterKey |-> k, ParameterValue |-> v]

\* time.Now().Format(SortableTime) at the successive readings of the clock:
\* fixed-width digit strings, so that their byte order is their time order
Stamps ==
  << "20150601.120001.000000000", "20150601.120002.000000000",
     "20150601.120003.000000000", "20150601.120004.000000000",
     "20150601.120005.000000000", "20150601.120006.000000000",
     "20150601.120007.000000000", "20150601.120008.000000000" >>

Format(t) == Stamps[t]

\* created values that are not in the SortableTime layout
Malformed == "yesterday"

Truncated == "20150601"

\* the byte order of the created values: a prefix sorts first, digits sort
\* before letters
ByteOrder == <<Truncated>> \o Stamps \o <<Malformed>>

Rank(s) == CHOOSE k \in 1..Len(ByteOrder) : ByteOrder[k] = s

\* time.Parse(SortableTime, s): the instant, or an error
Parse(s) ==
  IF \E t \in 1..Len(Stamps) : Stamps[t] = s
  THEN [time |-> CHOOSE t \in 1..Len(Stamps) : Stamps[t] = s, err |-> NoErr]
  ELSE [time |-> 0, err |-> <<"parsing time">>]

\* the items of the releases table of application a: R1 is whole, R2 has an
\* empty ami, R3 has no ami attribute, R4 has no manifest attribute
Attrs(a, id, ami, manifest, created) ==
  [k \in {"id", "app", "ami", "manifest", "created"} |->
     CASE k = "id" -> id
       [] k = "app" -> a
       [] k = "ami" -> ami
       [] k = "manifest" -> manifest
       [] OTHER -> created]

Without(item, a) == [k \in DOMAIN item \ {a} |-> item[k]]

Table0(a) ==
  [id \in {"R1", "R2", "R3", "R4"} |->
     CASE id = "R1" -> Attrs(a, "R1", "ami-1", "web: ruby", Format(1))
       [] id = "R2" -> Attrs(a, "R2", "", "web: ruby", Format(2))
       [] id = "R3" -> Without(Attrs(a, "R3", "", "web: ruby", Format(3)), "ami")
       [] OTHER -> Without(Attrs(a, "R4", "ami-4", "", Format(4)), "manifest")]

\* the first reading of the clock after the items above were written
Clock0 == Cardinality(DOMAIN Table0("web")) + 1

ReleaseIds == {"R1", "R2", "R3", "R4", "R9"}

\* the live parameter sets tried: with and without a Release entry
LiveSets ==
  { <<>>,
    <<Param("InstanceType", "t2.small")>>,
    <<Param("InstanceType", "t2.small"), Param("Release", "R1")>>,
    <<Param("Release", "R4"), Param("InstanceType", "t2.small")>> }

\* buildTemplate("app", params)
Template(a) == <<"template of ", a>>

\* coalesce(item[a], "")
coalesce(item, a) == IF a \in DOMAIN item THEN item[a] ELSE ""

\* an item without attributes; also the empty options map
NoItem == [k \in {} |-> ""]

\* the build commands are not part of the provider process
BuildOff ==
  /\ pc = "off"
  /\ source = <<>>
  /\ incremental = FALSE
  /\ app = "web"
  /\ BuildLocals0

InitRelease ==
  /\ rpc = "idle"
  /\ rapp \in Apps
  /\ release = ""
  /\ table = Table0(rapp)
  /\ stackParams \in LiveSets
  /\ stackTemplate = <<"template 0">>
  /\ described = <<>>
  /\ formation = <<>>
  /\ formationErr = NoErr
  /\ updates = <<>>
  /\ rcalls = <<>>
  /\ rerr = NoErr
  /\ promotions = 0
  /\ rop = ""
  /\ clock = Clock0
  /\ writes = 0
  /\ drel = NoItem
  /\ copied = ""
  /\ listed = <<>>
  /\ options = NoItem
  /\ BuildOff

\* releaseFormation: GetItem, the ami test, appParams, NewManifest on the
\* manifest attribute, buildTemplate.  getOk, paramsOk, templateOk are the
\* outcomes of the look-up, of appParams and of buildTemplate.
releaseFormation(tbl, a, id, getOk, paramsOk, templateOk) ==
  IF ~getOk \/ id \notin DOMAIN tbl
  THEN [formation |-> <<>>, err |-> <<"GetItem failed">>, panic |-> FALSE]
  ELSE IF coalesce(tbl[id], "ami") = ""
  THEN [formation |-> <<>>, err |-> <<"invalid ami">>, panic |-> FALSE]
  ELSE IF ~paramsOk
  THEN [formation |-> <<>>, err |-> <<"appParams failed">>, panic |-> FALSE]
  ELSE IF "manifest" \notin DOMAIN tbl[id]
  THEN [formation |-> <<>>, err |-> NoErr, panic |-> TRUE]
  ELSE IF ~templateOk
  THEN [formation |-> <<>>, err |-> <<"buildTemplate failed">>, panic |-> FALSE]
  ELSE [formation |-> Template(a), err |-> NoErr, panic |-> FALSE]

\* ReleasePromote is called; formation, err := releaseFormation(...); the
\* error is printed and the function goes on
ReleasePromote ==
  /\ rpc = "idle"
  /\ promotions < MaxPromotions
  /\ promotions + writes < MaxCalls
  /\ promotions' = promotions + 1
  /\ \E id \in ReleaseIds, getOk \in BOOLEAN, paramsOk \in BOOLEAN, templateOk \in BOOLEAN :
       LET f == releaseFormation(table, rapp, id, getOk, paramsOk, templateOk)
       IN  /\ release' = id
           /\ rcalls' = <<"GetItem">>
           /\ formation' = f.formation
           /\ formationErr' = f.err
           /\ rpc' = IF f.panic THEN "panic" ELSE "AppShow"
  /\ updates' = <<>>
  /\ described' = <<>>
  /\ rerr' = NoErr
  /\ rop' = "ReleasePromote"
  /\ UNCHANGED <<rapp, table, stackParams, stackTemplate>>
  /\ UNCHANGED storeVars
  /\ UNCHANGED buildVars

\* a, err := AppShow(cluster, app); a.Repository = ...; if err != nil:
\* a failed AppShow either handed back no App (the assignment dereferences
\* nil) or an App together with the error
ReleasePromote_AppShow ==
  /\ rpc = "AppShow"
  /\ rcalls' = Append(rcalls, "AppShow")
  /\ \E ok \in BOOLEAN, nilApp \in BOOLEAN :
       IF ok
       THEN rpc' = "DescribeStacks" /\ UNCHANGED rerr
       ELSE IF nilApp
       THEN rpc' = "panic" /\ UNCHANGED rerr
       ELSE rpc' = "return" /\ rerr' = <<"AppShow failed">>
  /\ UNCHANGED <<rapp, release, table, stackParams, stackTemplate, described, formation,
                 formationErr, updates, promotions, rop>>
  /\ UNCHANGED storeVars
  /\ UNCHANGED buildVars

\* the live parameters left out of the request
UpdateStackParams_onlyRelease(a, body, live, id) ==
  [StackName |-> StackName(a),
   TemplateBody |-> body,
   Parameters |-> <<Param("Release", id)>>]

\* Parameters: append(s.Stacks[0].Parameters, Parameter{"Release", release})
UpdateStackParams(a, body, live, id) ==
  [StackName |-> StackName(a),
   TemplateBody |-> body,
   Parameters |-> Append(live, Param("Release", id))]

\* a promotion that goes on to UpdateStack when DescribeStacks failed
ReleasePromote_DescribeStacks_goesOn ==
  /\ rpc = "DescribeStacks"
  /\ rcalls' = Append(rcalls, "DescribeStacks")
  /\ \E ok \in BOOLEAN, stacks \in 0..1 :
       IF ~ok
       THEN rpc' = "UpdateStack" /\ rerr' = <<"DescribeStacks failed">> /\ UNCHANGED described
       ELSE IF stacks = 0
       THEN rpc' = "panic" /\ UNCHANGED <<rerr, described>>
       ELSE rpc' = "UpdateStack" /\ described' = stackParams /\ UNCHANGED rerr
  /\ UNCHANGED <<rapp, release, table, stackParams, stackTemplate, formation,
                 formationErr, updates, promotions, rop>>
  /\ UNCHANGED storeVars
  /\ UNCHANGED buildVars

\* s, err := CloudFormation.DescribeStacks(stack, ""); s.Stacks[0] of an
\* empty answer is out of range; then the request is built
ReleasePromote_DescribeStacks ==
  /\ rpc = "DescribeStacks"
  /\ rcalls' = Append(rcalls, "DescribeStacks")
  /\ \E ok \in BOOLEAN, stacks \in 0..1 :
       IF ~ok
       THEN rpc' = "return" /\ rerr' = <<"DescribeStacks failed">> /\ UNCHANGED described
       ELSE IF stacks = 0
       THEN rpc' = "panic" /\ UNCHANGED <<rerr, described>>
       ELSE rpc' = "UpdateStack" /\ described' = stackParams /\ UNCHANGED rerr
  /\ UNCHANGED <<rapp, release, table, stackParams, stackTemplate, formation,
                 formationErr, updates, promotions, rop>>
  /\ UNCHANGED storeVars
  /\ UNCHANGED buildVars

\* the entries of a request that no later entry of the same key overrides
LastOfKey(ps) ==
  SelectSeq([k \in 1..Len(ps) |-> k],
            LAMBDA k : \A j \in (k + 1)..Len(ps) : ps[j].ParameterKey # ps[k].ParameterKey)

\* the stack keeps one value per parameter key: the last one of the request
ApplyParameters(ps) == [j \in 1..Len(LastOfKey(ps)) |-> ps[LastOfKey(ps)[j]]]

\* a promotion that also rewrites the promoted item
ReleasePromote_UpdateStack_writesItem ==
  /\ rpc = "UpdateStack"
  /\ rcalls' = Append(rcalls, "UpdateStack")
  /\ LET params == UpdateStackParams(rapp, formation, described, release)
     IN  /\ updates' = Append(updates, params)
         /\ \E ok \in BOOLEAN :
              IF ok
              THEN /\ stackParams' = ApplyParameters(params.Parameters)
                   /\ stackTemplate' = params.TemplateBody
                   /\ rerr' = NoErr
              ELSE /\ rerr' = <<"UpdateStack failed">>
                   /\ UNCHANGED <<stackParams, stackTemplate>>
  /\ rpc' = "return"
  /\ table' = [id \in DOMAIN table \cup {release} |->
                 IF id = release THEN [k \in {"promoted"} |-> "yes"] ELSE table[id]]
  /\ UNCHANGED <<rapp, release, described, formation, formationErr, promotions, rop>>
  /\ UNCHANGED storeVars
  /\ UNCHANGED buildVars

\* _, err = CloudFormation.UpdateStack(params); return err
ReleasePromote_UpdateStack ==
  /\ rpc = "UpdateStack"
  /\ rcalls' = Append(rcalls, "UpdateStack")
  /\ LET params == UpdateStackParams(rapp, formation, described, release)
     IN  /\ updates' = Append(updates, params)
         /\ \E ok \in BOOLEAN :
              IF ok
              THEN /\ stackParams' = ApplyParameters(params.Parameters)
                   /\ stackTemplate' = params.TemplateBody
                   /\ rerr' = NoErr
              ELSE /\ rerr' = <<"UpdateStack failed">>
                   /\ UNCHANGED <<stackParams, stackTemplate>>
  /\ rpc' = "return"
  /\ UNCHANGED <<rapp, release, table, described, formation, formationErr, promotions, rop>>
  /\ UNCHANGED storeVars
  /\ UNCHANGED buildVars

\* what a call leaves behind when it is over: nothing
Locals0 ==
  /\ rop' = ""
  /\ release' = ""
  /\ described' = <<>>
  /\ formation' = <<>>
  /\ formationErr' = NoErr
  /\ updates' = <<>>
  /\ rcalls' = <<>>
  /\ rerr' = NoErr
  /\ drel' = NoItem
  /\ copied' = ""
  /\ listed' = <<>>
  /\ options' = NoItem

\* the caller takes the result and is ready for the next call
ReleasePromote_returned ==
  /\ rpc = "return"
  /\ rop = "ReleasePromote"
  /\ rpc' = "idle"
  /\ Locals0
  /\ UNCHANGED <<rapp, table, stackParams, stackTemplate, promotions, clock, writes>>
  /\ UNCHANGED buildVars

(***************************************************************************)
(* The release store: ReleaseList, ReleaseCreate, ReleaseCopy.             *)
(***************************************************************************)
\* q.AddLimit(5)
PageSize == 5

\* the image identifiers and the options maps the callers pass
Amis == {"ami-1", "ami-7"}

OptionMaps(a) ==
  { NoItem,
    [k \in {"manifest"} |-> "web: go"],
    [k \in {"app", "created"} |-> IF k = "app" THEN a ELSE Format(2)],
    [k \in {"app", "created"} |-> IF k = "app" THEN a ELSE Malformed],
    [k \in {"app", "created"} |-> IF k = "app" THEN a ELSE Truncated] }

\* the identifiers generateId("R", 9) returns, in the order of its calls
GeneratedIds == <<"R5", "R6", "R7", "R8">>

\* generateId("R", 9): the next identifier, one that is not in use
generateId(tbl) ==
  {GeneratedIds[k] : k \in {j \in 1..Len(GeneratedIds) :
                              /\ GeneratedIds[j] \notin DOMAIN tbl
                              /\ \A i \in 1..(j - 1) : GeneratedIds[i] \in DOMAIN tbl}}

\* Table.PutItem(hashKey, "", attributes): the item holds the attributes,
\* a later one of the same name replacing an earlier one, the key attribute
\* "id" last; an item already stored under hashKey is replaced
PutItem(tbl, hashKey, item) ==
  [id \in DOMAIN tbl \cup {hashKey} |->
     IF id = hashKey
     THEN [k \in DOMAIN item \cup {"id"} |-> IF k = "id" THEN hashKey ELSE item[k]]
     ELSE tbl[id]]

\* attributes := {ami, created-at: "now"}; the options are appended
CreateAttributes(ami, opts) ==
  [k \in {"ami", "created-at"} \cup DOMAIN opts |->
     IF k \in DOMAIN opts THEN opts[k]
     ELSE IF k = "ami" THEN ami
     ELSE "now"]

\* ReleaseCreate: releasesTable(cluster, app).PutItem(ami, "", attributes)
ReleaseCreate ==
  /\ rpc = "idle"
  /\ writes < MaxWrites
  /\ promotions + writes < MaxCalls
  /\ writes' = writes + 1
  /\ rop' = "ReleaseCreate"
  /\ \E ami \in Amis, opts \in OptionMaps(rapp), ok \in BOOLEAN :
       /\ release' = ami
       /\ options' = opts
       /\ IF ok
          THEN table' = PutItem(table, ami, CreateAttributes(ami, opts)) /\ rerr' = NoErr
          ELSE table' = table /\ rerr' = <<"PutItem failed">>
  /\ rcalls' = <<"PutItem">>
  /\ rpc' = "return"
  /\ UNCHANGED <<rapp, stackParams, stackTemplate, described, formation, formationErr,
                 updates, promotions>>
  /\ UNCHANGED <<clock, drel, copied, listed>>
  /\ UNCHANGED buildVars

\* a look-up that answers a key that is not stored with an empty item
GetItem_emptyForMissing(tbl, key, ok) ==
  IF ~ok
  THEN [item |-> NoItem, err |-> <<"GetItem failed">>]
  ELSE IF key \in DOMAIN tbl
  THEN [item |-> tbl[key], err |-> NoErr]
  ELSE [item |-> NoItem, err |-> NoErr]

\* table.GetItem(&dynamodb.Key{release, ""}): the item, or an error when
\* the call fails or no item is stored under the key
GetItem(tbl, key, ok) ==
  IF ok /\ key \in DOMAIN tbl
  THEN [item |-> tbl[key], err |-> NoErr]
  ELSE [item |-> NoItem, err |-> <<"GetItem failed">>]

\* ReleaseCopy: drel, err := table.GetItem(release); if err != nil, return
\* "", err; id := generateId("R", 9), an identifier not yet in use
ReleaseCopy ==
  /\ rpc = "idle"
  /\ writes < MaxWrites
  /\ promotions + writes < MaxCalls
  /\ writes' = writes + 1
  /\ rop' = "ReleaseCopy"
  /\ rcalls' = <<"GetItem">>
  /\ \E src \in DOMAIN table \cup {"R9"}, ok \in BOOLEAN :
       LET got == GetItem(table, src, ok)
       IN  /\ release' = src
           /\ drel' = got.item
           /\ rerr' = got.err
           /\ IF got.err # NoErr
              THEN copied' = "" /\ rpc' = "return"
              ELSE /\ \E id \in generateId(table) : copied' = id
                   /\ rpc' = "PutItem"
  /\ UNCHANGED <<rapp, table, stackParams, stackTemplate, described, formation,
                 formationErr, updates, promotions>>
  /\ UNCHANGED <<clock, listed, options>>
  /\ UNCHANGED buildVars

\* the loop over drel: "id" takes the new id, "created" the time of the
\* copy, every other attribute its value
CopyAttributes(item, id, now) ==
  [k \in DOMAIN item |->
     CASE k = "id" -> id
       [] k = "created" -> Format(now)
       [] OTHER -> item[k]]

\* the loop has read the clock if drel has a created attribute; then
\* _, err = releasesTable(cluster, app).PutItem(id, "", rel); return id, err
ReleaseCopy_PutItem ==
  /\ rpc = "PutItem"
  /\ rcalls' = Append(rcalls, "PutItem")
  /\ clock' = IF "created" \in DOMAIN drel THEN clock + 1 ELSE clock
  /\ \E ok \in BOOLEAN :
       IF ok
       THEN table' = PutItem(table, copied, CopyAttributes(drel, copied, clock)) /\ rerr' = NoErr
       ELSE table' = table /\ rerr' = <<"PutItem failed">>
  /\ rpc' = "return"
  /\ UNCHANGED <<rapp, release, stackParams, stackTemplate, described, formation,
                 formationErr, updates, promotions, rop>>
  /\ UNCHANGED <<writes, drel, copied, listed, options>>
  /\ UNCHANGED buildVars

\* the ids in ids by descending created value, as the index "app.created"
\* read backwards yields them
RECURSIVE Descending(_, _)
Descending(tbl, ids) ==
  IF ids = {}
  THEN <<>>
  ELSE LET top == CHOOSE i \in ids :
                    \A j \in ids : Rank(tbl[j]["created"]) <= Rank(tbl[i]["created"])
       IN  <<top>> \o Descending(tbl, ids \ {top})

\* table.QueryTable(q): index app.created, app = a, ScanIndexForward false,
\* limit PageSize; items without the index attributes are not in the index
QueryTable(tbl, a) ==
  LET ids == {i \in DOMAIN tbl : /\ {"app", "created"} \subseteq DOMAIN tbl[i]
                                  /\ tbl[i]["app"] = a}
      all == Descending(tbl, ids)
      n   == IF Len(all) < PageSize THEN Len(all) ELSE PageSize
  IN  [k \in 1..n |-> tbl[all[k]]]

\* the rows that stop the loop: no row before them fails to parse
ParseFailure_skipped(rows) == {}

ParseFailure(rows) ==
  {k \in 1..Len(rows) : /\ Parse(rows[k]["created"]).err # NoErr
                        /\ \A j \in 1..(k - 1) : Parse(rows[j]["created"]).err = NoErr}

\* Release{Id: coalesce(r["id"], ""), Ami: coalesce(r["ami"], ""), CreatedAt}
ToRelease(r) ==
  [Id |-> coalesce(r, "id"), Ami |-> coalesce(r, "ami"),
   CreatedAt |-> Parse(r["created"]).time]

\* ReleaseList: the query, then the loop over its rows; a row whose created
\* does not parse ends the call with that error and no list
ReleaseList ==
  /\ rpc = "idle"
  /\ rop' = "ReleaseList"
  /\ rcalls' = <<"QueryTable">>
  /\ \E ok \in BOOLEAN :
       LET rows == QueryTable(table, rapp)
           good == SelectSeq(rows, LAMBDA r : Parse(r["created"]).err = NoErr)
       IN  IF ~ok
           THEN listed' = <<>> /\ rerr' = <<"QueryTable failed">>
           ELSE IF ParseFailure(rows) # {}
           THEN listed' = <<>> /\ rerr' = <<"parsing time">>
           ELSE listed' = [k \in 1..Len(good) |-> ToRelease(good[k])] /\ rerr' = NoErr
  /\ rpc' = "return"
  /\ UNCHANGED <<rapp, release, table, stackParams, stackTemplate, described, formation,
                 formationErr, updates, promotions>>
  /\ UNCHANGED <<clock, writes, drel, copied, options>>
  /\ UNCHANGED buildVars

\* the caller takes the result of a store call and is ready for the next
ReleaseStore_returned ==
  /\ rpc = "return"
  /\ rop \in {"ReleaseList", "ReleaseCreate", "ReleaseCopy"}
  /\ rpc' = "idle"
  /\ Locals0
  /\ UNCHANGED <<rapp, table, stackParams, stackTemplate, promotions, clock, writes>>
  /\ UNCHANGED buildVars

NextRelease ==
  \/ ReleasePromote
  \/ ReleasePromote_AppShow
  \/ ReleasePromote_DescribeStacks
  \/ ReleasePromote_UpdateStack
  \/ ReleasePromote_returned
  \/ ReleaseCreate
  \/ ReleaseCopy
  \/ ReleaseCopy_PutItem
  \/ ReleaseList
  \/ ReleaseStore_returned

SpecRelease == InitRelease /\ [][NextRelease]_vars

(***************************************************************************)
(* Properties of the build commands.                                       *)
(***************************************************************************)
TerminalStatuses == {"complete", "error", "failed", "timeout"}

OpsOf(ops) == SelectSeq(calls, LAMBDA c : c.op \in ops)

SubmitOps == {"CreateBuildUrl", "CreateBuildIndex", "CreateBuildSourceProgress"}

LastPolled == polled[Len(polled)]

\* C1: waitForBuild returns at the first poll whose status is complete,
\* error, failed or timeout and at no other poll: every earlier polled
\* status is outside those four; on complete it returns the Release of that
\* poll's record and no error, on error or failed "<app> build failed", on
\* timeout "<app> build timed out"; after a poll with any other status the
\* loop is still running (or a later GetBuild call failed).
C1_WaitForBuildReturnsAtFirstTerminal ==
  /\ \A k \in 1..(Len(polled) - 1) : polled[k].Status \notin TerminalStatuses
  /\ (polled # <<>> /\ LastPolled.Status = "complete") =>
       (pc = "return" /\ result = [release |-> LastPolled.Release, err |-> NoErr])
  /\ (polled # <<>> /\ LastPolled.Status \in {"error", "failed"}) =>
       (pc = "return" /\ result = [release |-> "", err |-> <<app, " build failed">>])
  /\ (polled # <<>> /\ LastPolled.Status = "timeout") =>
       (pc = "return" /\ result = [release |-> "", err |-> <<app, " build timed out">>])
  /\ (polled # <<>> /\ LastPolled.Status \notin TerminalStatuses) =>
       \/ pc \in {"sleep", "waitForBuild"}
       \/ pc = "return" /\ result = [release |-> "", err |-> RemoteErr("GetBuild")]

\* a build polled as queued, then building, then complete with release R1
C1_Witness ==
  /\ pc = "return"
  /\ Len(polled) = 3
  /\ polled[1].Status = "queued"
  /\ polled[2].Status = "building"
  /\ polled[3].Status = "complete"
  /\ polled[3].Release = "R1"
  /\ result.release = "R1"

\* C2: a failure of the log stream is not escalated: when finishBuild has
\* returned after StreamBuildLogs failed, the status was polled and the
\* result is the one the polling decided, not the stream's error.
C2_LogFailureNotEscalated ==
  (pc = "return" /\ logStream = "broken") =>
    (polled # <<>> /\ result.err # RemoteErr("StreamBuildLogs"))

\* C3: log streaming and status polling do not block each other: while the
\* log stream is open the polling loop is able to take a step.
C3_PollingNotBlockedByOpenStream ==
  (logStream = "open") => ENABLED (waitForBuild \/ waitForBuild_sleep)

\* C4: executeBuild issues at most one submission call; it is CreateBuildUrl
\* when the source's scheme is http or https, otherwise CreateBuildIndex
\* when the incremental flag is set and the rack's version is not below the
\* minimum, otherwise CreateBuildSourceProgress.
C4_ExactlyOneStrategy ==
  /\ Len(OpsOf(SubmitOps)) <= 1
  /\ \A k \in 1..Len(calls) :
       calls[k].op \in SubmitOps =>
         calls[k].op =
           IF scheme \in {<<"h", "t", "t", "p">>, <<"h", "t", "t", "p", "s">>}
           THEN "CreateBuildUrl"
           ELSE IF incremental /\ ~StrLess(version, MinIncrementalVersion)
                THEN "CreateBuildIndex"
                ELSE "CreateBuildSourceProgress"

\* an upper-case HTTP source with the incremental flag set went by URL
C4_Witness ==
  /\ incremental
  /\ source = <<"H", "T", "T", "P", ":", "/", "/", "x">>
  /\ Len(OpsOf({"CreateBuildUrl"})) = 1
  /\ pc = "return"
  /\ result.err = NoErr

\* GetSystem answered with a version below the minimum
Downgraded ==
  /\ incremental
  /\ Len(OpsOf({"GetSystem"})) = 1
  /\ result.err # RemoteErr("GetSystem")
  /\ StrLess(version, MinIncrementalVersion)

\* C5: with the incremental flag set and a reported version below the
\* minimum, the build goes through executeBuildDir: the downgrade itself
\* returns no error, the only submission is CreateBuildSourceProgress, and
\* IndexMissing, IndexUpdate and CreateBuildIndex are never called.
C5_DowngradeToTarball ==
  Downgraded =>
    /\ OpsOf({"IndexMissing", "IndexUpdate", "CreateBuildIndex"}) = <<>>
    /\ pc \notin {"createIndex", "uploadIndex", "IndexUpdate", "CreateBuildIndex"}
    /\ Len(calls) = 1 =>
         \/ pc \in {"executeBuildDir", "CreateBuildSourceProgress"}
         \/ pc = "return" /\ result.err = LocalErr("createTarball")
    /\ Len(calls) >= 2 => calls[2].op = "CreateBuildSourceProgress"

\* version 2016022623421 (a digit short) was reported and the tarball built
\* from it completed
C5_Witness ==
  /\ Downgraded
  /\ version = <<2, 0, 1, 6, 0, 2, 2, 6, 2, 3, 4, 2, 1>>
  /\ Len(OpsOf({"CreateBuildSourceProgress"})) = 1
  /\ pc = "return"
  /\ result.err = NoErr

\* IndexMissing was the last call and answered with an empty list
AnsweredNothingMissing ==
  /\ calls # <<>>
  /\ calls[Len(calls)].op = "IndexMissing"
  /\ result.err = NoErr
  /\ missing = <<>>

\* C6: when IndexMissing answers with an empty list, uploadIndex returns
\* success without building an archive or calling IndexUpdate, and the
\* build is then submitted with the index.
C6_EmptyMissingShortCut ==
  /\ AnsweredNothingMissing =>
       /\ pc = "CreateBuildIndex"
       /\ archive = <<>>
       /\ OpsOf({"IndexUpdate"}) = <<>>
  /\ (pc = "CreateBuildIndex" /\ missing # <<>>) => Len(OpsOf({"IndexUpdate"})) = 1

\* a non-empty index of which the remote misses nothing
C6_Witness ==
  /\ AnsweredNothingMissing
  /\ Cardinality(DOMAIN index) = 2
  /\ pc = "CreateBuildIndex"

Range(f) == {f[k] : k \in DOMAIN f}

\* C7: the archive handed to IndexUpdate holds exactly one entry per hash of
\* the missing list and none for any other hash; each entry is named by its
\* hash and holds the bytes read from the path the index records for that
\* hash; IndexUpdate is called at most once.
C7_ArchiveIsExactlyTheMissing ==
  /\ Len(OpsOf({"IndexUpdate"})) <= 1
  /\ (pc = "IndexUpdate" \/ (pc = "CreateBuildIndex" /\ missing # <<>>)) =>
       /\ \A h \in Range(missing) :
            Cardinality({k \in 1..Len(archive) : archive[k].Name = h}) = 1
       /\ \A k \in 1..Len(archive) :
            /\ archive[k].Name \in Range(missing)
            /\ archive[k].Name \in DOMAIN index
            /\ archive[k].Data = fsRead[index[archive[k].Name].Name]

\* both hashes of a two-file tree were missing and have been uploaded; the
\* file of path "a" holds other bytes than when it was indexed
C7_Witness ==
  /\ pc = "CreateBuildIndex"
  /\ Len(missing) = 2
  /\ Len(archive) = 2
  /\ Len(OpsOf({"IndexUpdate"})) = 1
  /\ \E h \in DOMAIN index : index[h].Name = "a" /\ Sha256(fsRead["a"]) # h

\* C17: an error of GetBuild ends waitForBuild at once: executeBuild returns
\* that error with an empty release id, the failed call is the last call,
\* and every other GetBuild call has answered a build.
C17_GetBuildErrorIsFatal ==
  LET gets == Len(OpsOf({"GetBuild"}))
  IN  /\ (result.err = RemoteErr("GetBuild")) =>
           /\ pc = "return"
           /\ result.release = ""
           /\ calls[Len(calls)].op = "GetBuild"
           /\ gets = Len(polled) + 1
      /\ (result.err # RemoteErr("GetBuild")) => gets = Len(polled)

\* two polls answered a build that is not finished, the third GetBuild failed
C17_Witness ==
  /\ pc = "return"
  /\ result = [release |-> "", err |-> RemoteErr("GetBuild")]
  /\ Len(polled) = 2
  /\ Len(OpsOf({"GetBuild"})) = 3

\* C18: against a service that never fails GetBuild and whose build goes
\* from created over building to a final status and stays there,
\* waitForBuild eventually returns; it returns only on a final status, and
\* as long as the service reports another status the loop has a next step
\* to take, however many turns it has made.
C18_PollingEndsWithTheBuild ==
  /\ <>(pc = "return")
  /\ [](pc = "return" =>
          (remote.Status \in TerminalStatuses /\ LastPolled.Status \in TerminalStatuses))
  /\ [](remote.Status \notin TerminalStatuses =>
          (pc \in {"waitForBuild", "sleep"} /\ ENABLED (waitForBuild_remote \/ waitForBuild_sleep)))

\* the loop made MaxPolls turns before the build completed, and returned
C18_Witness ==
  /\ pc = "return"
  /\ result = [release |-> "R1", err |-> NoErr]
  /\ Len(polled) = MaxPolls
  /\ polled[1].Status = "created"
  /\ polled[MaxPolls - 1].Status = "building"
  /\ remote.Status = "complete"

\* the two files createTarball always ships
ForcedFiles == {".dockerignore", "Dockerfile"}

\* the tree as the patterns of .dockerignore filter it
Filtered == {f \in tree : f \notin excludes}

\* C20: when the patterns match .dockerignore or Dockerfile, the archive
\* holds both of them (as far as the tree has them) besides the filtered
\* tree; when they match neither, the archive is exactly the filtered tree.
C20_DockerfilesForceIncluded ==
  (pc = "CreateBuildSourceProgress") =>
    IF excludes \cap ForcedFiles # {}
    THEN /\ (ForcedFiles \cap tree) \subseteq tarball
         /\ tarball = Filtered \cup (ForcedFiles \cap tree)
    ELSE tarball = Filtered

\* the patterns match Dockerfile and app.rb: app.rb is left out, Dockerfile
\* and .dockerignore are archived
C20_Witness ==
  /\ pc = "CreateBuildSourceProgress"
  /\ tree = TarPaths
  /\ excludes = {"Dockerfile", "app.rb"}
  /\ tarball = {".dockerignore", "Dockerfile"}

\* the names of the remote calls issued so far, in order
CallOps == [k \in 1..Len(calls) |-> calls[k].op]

\* the errors with which uploadIndex fails
UploadErrs == {RemoteErr("IndexMissing"), LocalErr("ReadFile"), RemoteErr("IndexUpdate")}

\* C22: on the incremental path of a rack that supports it the remote calls
\* are GetSystem, IndexMissing, IndexUpdate (only when files are missing),
\* CreateBuildIndex, each at most once and in this order; CreateBuildIndex
\* follows a successful uploadIndex only: when IndexMissing fails, a missing
\* file cannot be read or IndexUpdate fails, executeBuild returns that error
\* and no build is submitted, by CreateBuildIndex or by the tarball strategy.
C22_IncrementalCallOrder ==
  /\ \A o \in {"GetSystem", "IndexMissing", "IndexUpdate", "CreateBuildIndex"} :
       Len(OpsOf({o})) <= 1
  /\ \A k \in 1..Len(calls) :
       /\ (CallOps[k] = "IndexMissing") =>
            (SubSeq(CallOps, 1, k) = <<"GetSystem", "IndexMissing">>
               /\ SupportsIncremental(version))
       /\ (CallOps[k] = "IndexUpdate") =>
            SubSeq(CallOps, 1, k) = <<"GetSystem", "IndexMissing", "IndexUpdate">>
       /\ (CallOps[k] = "CreateBuildIndex") =>
            SubSeq(CallOps, 1, k) \in
              { <<"GetSystem", "IndexMissing", "CreateBuildIndex">>,
                <<"GetSystem", "IndexMissing", "IndexUpdate", "CreateBuildIndex">> }
  /\ (OpsOf({"IndexMissing"}) # <<>>) => OpsOf({"CreateBuildSourceProgress"}) = <<>>
  /\ (pc = "IndexUpdate") => missing # <<>>
  /\ (pc = "CreateBuildIndex") =>
       /\ result.err = NoErr
       /\ (missing = <<>>) <=> (OpsOf({"IndexUpdate"}) = <<>>)
  /\ (result.err \in UploadErrs) =>
       /\ pc = "return"
       /\ result.release = ""
       /\ OpsOf(SubmitOps) = <<>>
       /\ CallOps[Len(calls)] = (IF result.err = RemoteErr("IndexUpdate")
                                 THEN "IndexUpdate" ELSE "IndexMissing")

\* IndexUpdate failed after two files were found missing
C22_Witness ==
  /\ pc = "return"
  /\ result.err = RemoteErr("IndexUpdate")
  /\ CallOps = <<"GetSystem", "IndexMissing", "IndexUpdate">>
  /\ Len(missing) = 2

\* C23: with a build record whose Id is empty finishBuild fails with
\* "unable to fetch build id" and neither StreamBuildLogs nor GetBuild is
\* called; otherwise StreamBuildLogs is called once, for that build Id and
\* application, and every GetBuild comes after it and asks for the same Id.
C23_StreamOpensBeforeFirstPoll ==
  /\ (build.Id = "") => OpsOf({"StreamBuildLogs", "GetBuild"}) = <<>>
  /\ (result.err = ErrNoBuildId) =>
       (pc = "return" /\ build.Id = "" /\ OpsOf(SubmitOps) # <<>>)
  /\ (pc = "return" /\ build.Id = "" /\ OpsOf(SubmitOps) # <<>>) =>
       result.err \in {ErrNoBuildId} \cup {RemoteErr(o) : o \in SubmitOps}
  /\ Len(OpsOf({"StreamBuildLogs"})) <= 1
  /\ (pc \in {"StreamBuildLogs", "waitForBuild", "sleep"}) =>
       OpsOf({"StreamBuildLogs"}) = <<Call("StreamBuildLogs", app, build.Id)>>
  /\ \A k \in 1..Len(calls) :
       (CallOps[k] = "GetBuild") =>
         /\ calls[k] = Call("GetBuild", app, build.Id)
         /\ \E j \in 1..(k - 1) : calls[j] = Call("StreamBuildLogs", app, build.Id)

\* the submission answered a build record without Id
C23_Witness ==
  /\ pc = "return"
  /\ result = [release |-> "", err |-> ErrNoBuildId]
  /\ Len(calls) = 1
  /\ CallOps[1] \in SubmitOps

(***************************************************************************)
(* Properties of ReleasePromote.                                           *)
(***************************************************************************)
ReleaseEntries(ps) == {k \in 1..Len(ps) : ps[k].ParameterKey = "Release"}

\* C8: when the release look-up fails or the item has no ami, ReleasePromote
\* fails with an error and issues no UpdateStack.
C8_NoUpdateWithoutArtifact ==
  (formationErr \in {<<"GetItem failed">>, <<"invalid ami">>}) =>
    /\ updates = <<>>
    /\ rpc = "return" => rerr # NoErr

\* C9: when the described parameter set has no Release entry, the one
\* UpdateStack request carries every described entry unchanged and in
\* place, followed by exactly one added entry, Release = the target id.
C9_LiveSetPlusRelease ==
  (updates # <<>> /\ ReleaseEntries(described) = {}) =>
    LET ps == updates[1].Parameters
    IN  /\ Len(updates) = 1
        /\ Len(ps) = Len(described) + 1
        /\ \A k \in 1..Len(described) : ps[k] = described[k]
        /\ ps[Len(ps)] = [ParameterKey |-> "Release", ParameterValue |-> release]
        /\ updates[1].StackName = <<"convox", "-", rapp>>

\* the stack held only InstanceType = t2.small and R1 was promoted
C9_Witness ==
  /\ rpc = "return"
  /\ rerr = NoErr
  /\ release = "R1"
  /\ described = <<[ParameterKey |-> "InstanceType", ParameterValue |-> "t2.small"]>>
  /\ Len(updates) = 1
  /\ updates[1].TemplateBody = Template(rapp)

\* C10: every UpdateStack request holds exactly one entry of key Release,
\* and its value is the target release id.
C10_ExactlyOneReleaseParam ==
  \A u \in 1..Len(updates) :
    LET ps == updates[u].Parameters
    IN  /\ Cardinality(ReleaseEntries(ps)) = 1
        /\ \A k \in ReleaseEntries(ps) : ps[k].ParameterValue = release

UpdateStackCalls == {k \in 1..Len(rcalls) : rcalls[k] = "UpdateStack"}

\* C21: a ReleasePromote call issues at most one UpdateStack, as its fourth
\* and last remote call, after the release look-up, AppShow and
\* DescribeStacks; it gets to UpdateStack only when AppShow and
\* DescribeStacks succeeded, a failure of either ends the call without an
\* UpdateStack, and a failed UpdateStack ends the call with that error.
C21_OneUpdateStackAfterTheLookUps ==
  /\ Cardinality(UpdateStackCalls) <= 1
  /\ \A k \in UpdateStackCalls :
       rcalls = <<"GetItem", "AppShow", "DescribeStacks", "UpdateStack">>
  /\ (rpc = "UpdateStack") =>
       (rerr = NoErr /\ rcalls = <<"GetItem", "AppShow", "DescribeStacks">>)
  /\ (rerr \in {<<"AppShow failed">>, <<"DescribeStacks failed">>}) =>
       (rpc = "return" /\ UpdateStackCalls = {})
  /\ (rerr = <<"UpdateStack failed">>) =>
       (rpc = "return" /\ rcalls[Len(rcalls)] = "UpdateStack")

\* UpdateStack failed and ReleasePromote is about to return its error
C21_Witness ==
  /\ rpc = "return"
  /\ rop = "ReleasePromote"
  /\ rerr = <<"UpdateStack failed">>
  /\ rcalls = <<"GetItem", "AppShow", "DescribeStacks", "UpdateStack">>
  /\ Len(updates) = 1

(***************************************************************************)
(* Properties of the release store.                                        *)
(***************************************************************************)
\* C11: the release store is append-only: whatever ReleaseCreate,
\* ReleaseCopy, ReleaseList or ReleasePromote does, every item that was
\* stored is still stored under the same key with every attribute unchanged;
\* so two ReleaseCreate calls with the same image identifier leave two items.
C11_StoreIsAppendOnly ==
  [][\A id \in DOMAIN table : id \in DOMAIN table' /\ table'[id] = table[id]]_vars

\* the identifiers of the shape generateId("R", 9) produces
ReleaseShaped == {"R1", "R2", "R3", "R4", "R5", "R6", "R7", "R8", "R9"}

\* the attributes a copy has to carry over verbatim
CarriedOver(item) == DOMAIN item \ {"id", "created"}

\* C12: a ReleaseCopy that succeeded has stored a new item under the id it
\* returned: that id is not the source id and has the release shape, the
\* item's created is the time of the copy, every other attribute (ami
\* included) is the source's, and the source item is as it was.
C12_CopyIsSourceUnderNewIdentity ==
  (rpc = "return" /\ rop = "ReleaseCopy" /\ rerr = NoErr) =>
    /\ copied \in DOMAIN table
    /\ copied # release
    /\ copied \in ReleaseShaped
    /\ table[copied]["id"] = copied
    /\ "created" \in DOMAIN table[copied]
    /\ table[copied]["created"] = Format(clock - 1)
    /\ \A id \in DOMAIN table \ {copied} :
         "created" \in DOMAIN table[id] => table[id]["created"] # table[copied]["created"]
    /\ CarriedOver(table[copied]) = CarriedOver(drel)
    /\ \A k \in CarriedOver(drel) : table[copied][k] = drel[k]
    /\ table[release] = drel

\* C13: a ReleaseCopy whose source id is not stored returns at once with the
\* look-up's error and no id, after the one GetItem call, and the table is
\* as it was.
C13_CopyOfMissingSourcePersistsNothing ==
  [][(rpc = "idle" /\ rop' = "ReleaseCopy" /\ release' \notin DOMAIN table) =>
       /\ rpc' = "return"
       /\ rerr' # NoErr
       /\ copied' = ""
       /\ rcalls' = <<"GetItem">>
       /\ table' = table]_vars

\* ReleaseCopy of R9, which is not stored, has returned
C13_Witness ==
  /\ rpc = "return"
  /\ rop = "ReleaseCopy"
  /\ release = "R9"
  /\ "R9" \notin DOMAIN table
  /\ rerr # NoErr
  /\ copied = ""

\* C14: a ReleaseCreate that succeeded has stored an item whose created is
\* the time of the call in the sortable layout, whatever the options map
\* holds, and that carries the caller's ami and every option.
C14_CreateStampsCreationTime ==
  (rpc = "return" /\ rop = "ReleaseCreate" /\ rerr = NoErr) =>
    /\ release \in DOMAIN table
    /\ LET item == table[release]
       IN  /\ "created" \in DOMAIN item
           /\ Parse(item["created"]).err = NoErr
           /\ Parse(item["created"]).time >= clock - 1
           /\ item["ami"] = release
           /\ \A k \in DOMAIN options \ {"created"} : item[k] = options[k]

\* the ids ReleaseList returned
ListedIds == {listed[k].Id : k \in 1..Len(listed)}

\* C15: a ReleaseList that succeeded returned at most PageSize releases,
\* each one a stored item of the application, in strictly descending order
\* of creation time, and no stored item it left out is newer than one it
\* returned.
C15_ListIsNewestPage ==
  (rpc = "return" /\ rop = "ReleaseList" /\ rerr = NoErr) =>
    /\ Len(listed) <= PageSize
    /\ \A k \in 1..Len(listed) :
         /\ listed[k].Id \in DOMAIN table
         /\ coalesce(table[listed[k].Id], "app") = rapp
         /\ listed[k].Ami = coalesce(table[listed[k].Id], "ami")
         /\ Format(listed[k].CreatedAt) = table[listed[k].Id]["created"]
    /\ \A i \in 1..Len(listed) : \A j \in (i + 1)..Len(listed) :
         listed[i].CreatedAt > listed[j].CreatedAt
    /\ \A id \in DOMAIN table \ ListedIds :
         ("created" \in DOMAIN table[id] /\ Parse(table[id]["created"]).err = NoErr) =>
           \A k \in 1..Len(listed) : Parse(table[id]["created"]).time <= listed[k].CreatedAt

\* the rows the query of the running ReleaseList answered
Rows == QueryTable(table, rapp)

Unparsable(rows) == {k \in 1..Len(rows) : Parse(rows[k]["created"]).err # NoErr}

\* C16: when a row the query answered has a created value that does not
\* parse, at whatever position, ReleaseList returns an error and no list.
C16_ListFailsAsAWhole ==
  (rpc = "return" /\ rop = "ReleaseList" /\ Unparsable(Rows) # {}) =>
    /\ rerr # NoErr
    /\ listed = <<>>

\* the query succeeded and only its last row does not parse
C16_Witness ==
  /\ rpc = "return"
  /\ rop = "ReleaseList"
  /\ rerr = <<"parsing time">>
  /\ listed = <<>>
  /\ Len(Rows) = PageSize
  /\ Unparsable(Rows) = {PageSize}

\* C19: no step of ReleasePromote writes to the releases table: from the
\* call to its return the table is what it was.
C19_PromoteLeavesStoreAlone ==
  [][(rop = "ReleasePromote" \/ rop' = "ReleasePromote") => table' = table]_vars

\* a promotion has updated the stack and is about to return
C19_Witness ==
  /\ rpc = "return"
  /\ rop = "ReleasePromote"
  /\ rerr = NoErr
  /\ Len(updates) = 1
  /\ stackTemplate = Template(rapp)
  /\ writes > 0

(***************************************************************************)
(* Properties of the build commands' entry points.                         *)
(***************************************************************************)
\* nothing was packaged, uploaded or submitted: GetApp is the only call
NothingBuilt ==
  /\ \A k \in 1..Len(calls) : CallOps[k] = "GetApp"
  /\ index = EmptyIndex
  /\ archive = <<>>
  /\ tree = {}
  /\ tarball = {}
  /\ build = NoBuild
  /\ result = [release |-> "", err |-> NoErr]

\* C24: cmdBuildsCreate goes on to executeBuild only for an application
\* whose status is running or updating; for creating it exits with "app is
\* still creating", for any other status with "unable to build app", and in
\* these cases and when GetApp fails nothing is packaged, uploaded or
\* submitted.
C24_BuildOnlyWhenRunningOrUpdating ==
  /\ (pc \notin {"cmdBuildsCreate", "exit"} \/ ~NothingBuilt) =>
       astatus \in {"running", "updating"}
  /\ (astatus = "creating") => (pc = "exit" /\ cmdErr = <<"app is still creating: ", app>>)
  /\ (astatus \notin {"", "creating", "running", "updating"}) =>
       (pc = "exit" /\ cmdErr = <<"unable to build app: ", app>>)
  /\ (cmdErr = RemoteErr("GetApp") /\ astatus = "") => (pc = "exit" /\ NothingBuilt)

\* the application was still creating: the command has exited after GetApp
C24_Witness ==
  /\ pc = "exit"
  /\ astatus = "creating"
  /\ cmdErr = ErrStillCreating(app)
  /\ CallOps = <<"GetApp">>
  /\ NothingBuilt

PromoteCalls == {k \in 1..Len(calls) : CallOps[k] = "PromoteRelease"}

\* C25: cmdBuildsCopy calls PromoteRelease at most once, last of its calls,
\* and only when CopyBuild succeeded, the polling of the copied build ended
\* on status complete with a release id and the promote flag is set; the
\* release promoted is the polled one, in the destination application; when
\* the copy or the build fails, or the flag is unset, nothing is promoted.
C25_PromoteOnlyTheCopiedRelease ==
  /\ Cardinality(PromoteCalls) <= 1
  /\ \A k \in PromoteCalls :
       /\ k = Len(calls)
       /\ pc = "exit"
       /\ promote
       /\ CallOps[1] = "CopyBuild"
       /\ calls[1].dest = app
       /\ HasBuildId(build)
       /\ polled # <<>>
       /\ polled[Len(polled)].Id = build.Id
       /\ polled[Len(polled)].Status = "complete"
       /\ polled[Len(polled)].Release # ""
       /\ result = [release |-> polled[Len(polled)].Release, err |-> NoErr]
       /\ calls[k] = Call("PromoteRelease", app, polled[Len(polled)].Release)
       /\ cmdErr \in {NoErr, RemoteErr("PromoteRelease")}
  /\ (pc = "exit" /\ (~promote \/ result.err # NoErr \/ result.release = ""
                        \/ build = NoBuild)) =>
       PromoteCalls = {}
  /\ (pc = "exit" /\ result.err # NoErr) => cmdErr = result.err
  /\ (pc = "exit" /\ result.err = NoErr /\ result.release # "" /\ promote) =>
       PromoteCalls # {}

\* the copy was built after a turn of waiting and its release promoted in
\* the other application
C25_Witness ==
  /\ pc = "exit"
  /\ cmdErr = NoErr
  /\ promote
  /\ fromApp # app
  /\ Len(polled) = 2
  /\ CallOps[Len(calls)] = "PromoteRelease"
  /\ calls[Len(calls)].arg = "R1"

====
